---- MODULE Spec2Model ----
(***************************************************************************)
(* A model of surreal's environment wrapper chain (surreal/env/wrapper.py) *)
(* and of checkpoint selection (surreal/main/rollout.py).                  *)
(*                                                                         *)
(* Arrays are numpy arrays kept sparsely: a shape and the entries that are *)
(* not zero, indexed from 0 as numpy does.  Python's None is NoneArr for   *)
(* an array and the empty sequence for a scalar (a present scalar x is the *)
(* one-element sequence <<x>>).                                            *)
(***************************************************************************)
EXTENDS Integers, Sequences, FiniteSets, TLC

VARIABLES
    layout,     \* the keys of the native environment's observation mapping
    chain,      \* the wrappers built so far, innermost first
    last,       \* the most recent call on the chain and what each stage returned
    nSteps,     \* step() calls since the MaxStepWrapper was built or last reset
    obsLog,     \* what the FrameStackWrapper's inner env returned since its last reset
    gIn,        \* GrayscaleWrapper._grayscale: argument
    gOut,       \*                              result
    fIn,        \* flatten_obs: argument
    fOut,       \*              result
    listing,    \* restore_model: what glob returned
    restored    \*                its outcome

vars == <<layout, chain, last, nSteps, obsLog, gIn, gOut, fIn, fOut, listing, restored>>

----------------------------------------------------------------------------
(* Program constants.                                                      *)

PixH == 84
PixW == 84
PixC == 3
U8 == 256

(* Bounds of the model.                                                    *)

MaxN == 2          \* frame_stacks is drawn from 1..MaxN
MaxLimit == 2      \* max_steps is drawn from 0..MaxLimit
StepCap == 2       \* step() calls between two resets
MaxFiles == 3      \* checkpoint files in the folder

----------------------------------------------------------------------------
(* numpy arrays                                                            *)

NoData == [i \in {} |-> 0]

NoneArr == [isNone |-> TRUE, shape |-> <<>>, data |-> NoData]

MkArr(shape, data) == [isNone |-> FALSE, shape |-> shape, data |-> data]

At(a, i) == IF i \in DOMAIN a.data THEN a.data[i] ELSE 0

Rank(a) == Len(a.shape)

\* np.array(s) of a sequence of numbers: a 1-D array.
Arr1(s) ==
    MkArr(<<Len(s)>>,
          [i \in {<<k - 1>> : k \in {j \in 1..Len(s) : s[j] # 0}} |-> s[i[1] + 1]])

\* An (H, W, C) image that is zero but at pixel (h, w), whose channels are c.
Image(h, w, c) ==
    MkArr(<<PixH, PixW, PixC>>,
          [i \in {<<h, w, k - 1>> : k \in {j \in 1..Len(c) : c[j] # 0}} |-> c[i[3] + 1]])

\* v.transpose((2, 1, 0)): axis k of the result is axis 2-k of v.
Transpose210(v) ==
    MkArr(<<v.shape[3], v.shape[2], v.shape[1]>>,
          [i \in {<<j[3], j[2], j[1]>> : j \in DOMAIN v.data} |-> v.data[<<i[3], i[2], i[1]>>]])

Shift(i, k) == <<i[1] + k>> \o Tail(i)

\* np.concatenate((a, b), axis=0).
Concat2(a, b) ==
    LET k == a.shape[1]
    IN  MkArr(<<k + b.shape[1]>> \o Tail(a.shape),
              [i \in DOMAIN a.data \cup {Shift(j, k) : j \in DOMAIN b.data} |->
                  IF i \in DOMAIN a.data THEN a.data[i] ELSE b.data[Shift(i, -k)]])

RECURSIVE Concatenate(_)
Concatenate(arrs) ==
    IF Len(arrs) = 1 THEN arrs[1]
    ELSE Concat2(Concatenate(SubSeq(arrs, 1, Len(arrs) - 1)), arrs[Len(arrs)])

\* The sum over axis 0 at position p, accumulated in uint8 as dtype='uint8' asks.
RECURSIVE SumAxis0U8(_, _, _)
SumAxis0U8(v, p, c) ==
    IF c = 0 THEN 0
    ELSE (SumAxis0U8(v, p, c - 1) + At(v, <<c - 1>> \o p)) % U8

\* np.mean(v, 0, 'uint8'): umr_sum in uint8, then true_divide by the count
\* written back into the uint8 result (casting='unsafe' truncates).
MeanAxis0U8(v) ==
    LET val(p) == SumAxis0U8(v, p, v.shape[1]) \div v.shape[1]
        pos == {Tail(i) : i \in DOMAIN v.data}
    IN  MkArr(Tail(v.shape), [p \in {q \in pos : val(q) # 0} |-> val(p)])

\* a.reshape(1, H, W) of an (H, W) array.
Reshape1HW(a, H, W) ==
    MkArr(<<1, H, W>>, [i \in {<<0>> \o j : j \in DOMAIN a.data} |-> a.data[Tail(i)]])

----------------------------------------------------------------------------
(* Observations and what a call returns                                    *)

PairObs(v, f) == [tag |-> "pair", items |-> <<>>, visual |-> v, flat |-> f]

MapObs(items) == [tag |-> "mapping", items |-> items, visual |-> NoneArr, flat |-> NoneArr]

NoObs == [tag |-> "none", items |-> <<>>, visual |-> NoneArr, flat |-> NoneArr]

None == <<>>

EmptyInfo == <<>>

\* A call that returned: the tuple (observation, reward, done, info); reset()
\* returns (observation, info), kept with reward None and done FALSE.
Returned(obs, reward, done, info) ==
    [ok |-> TRUE, err |-> "", obs |-> obs, reward |-> reward, done |-> done, info |-> info]

\* A call that raised.
Raised(err) ==
    [ok |-> FALSE, err |-> err, obs |-> NoObs, reward |-> None, done |-> FALSE, info |-> EmptyInfo]

----------------------------------------------------------------------------
(* flatten_obs                                                             *)

FlatOrNone(flat_observations) ==
    IF Len(flat_observations) = 0 THEN NoneArr ELSE Concatenate(flat_observations)

\* The loop over obs.items(), from item k on.
RECURSIVE FlattenLoop(_, _, _, _)
FlattenLoop(items, k, flat_observations, visual_observations) ==
    IF k > Len(items)
    THEN Returned(PairObs(visual_observations, FlatOrNone(flat_observations)),
                  None, FALSE, EmptyInfo)
    ELSE LET v == items[k].arr
         IN  IF Rank(v) > 1
             THEN IF v.shape # <<PixH, PixW, PixC>> THEN Raised("AssertionError")
                  ELSE IF Transpose210(v).shape # <<PixC, PixH, PixW>>
                       THEN Raised("AssertionError")
                  ELSE IF ~visual_observations.isNone THEN Raised("AssertionError")
                  ELSE FlattenLoop(items, k + 1, flat_observations, Transpose210(v))
             ELSE IF Rank(v) = 1
             THEN FlattenLoop(items, k + 1, Append(flat_observations, v),
                              visual_observations)
             ELSE Raised("Exception")

flatten_obs(obs) ==
    IF obs.tag # "mapping" THEN Raised("AttributeError")
    ELSE FlattenLoop(obs.items, 1, <<>>, NoneArr)

----------------------------------------------------------------------------
(* GrayscaleWrapper._grayscale                                             *)

\* Unpacking an observation that is no pair into (visual, flat): a mapping of
\* two keys unpacks into its keys, and fails at the first use of .shape.
UnpackError(obs) ==
    IF obs.tag = "mapping" /\ Len(obs.items) = 2 THEN "AttributeError" ELSE "ValueError"

_grayscale(obs) ==
    IF obs.tag # "pair" THEN Raised(UnpackError(obs))
    ELSE IF obs.visual.isNone THEN Returned(obs, None, FALSE, EmptyInfo)
    ELSE IF Rank(obs.visual) # 3 THEN Raised("ValueError")
    ELSE IF obs.visual.shape # <<PixC, PixH, PixW>> THEN Raised("AssertionError")
    ELSE Returned(PairObs(Reshape1HW(MeanAxis0U8(obs.visual),
                                     obs.visual.shape[2], obs.visual.shape[3]),
                          obs.flat),
                  None, FALSE, EmptyInfo)

----------------------------------------------------------------------------
(* The native environment: a dm_control environment, whose step() and      *)
(* reset() return a TimeStep.                                              *)

TimeStep(step_type, reward, observation) ==
    [step_type |-> step_type, reward |-> reward, observation |-> observation]

NoTimeStep == TimeStep("", None, NoObs)

Item(name, arr) == [name |-> name, arr |-> arr]

ImageA == Image(1, 2, <<255, 255, 255>>)
ImageB == Image(3, 0, <<10, 20, 30>>)

\* What the native environment observes: pixels only (pixels.Wrapper with
\* pixels_only), pixels beside the task's vectors, or the vectors alone.
Layouts == {"pixels", "both", "flat"}

Frames(l) ==
    IF l = "pixels"
    THEN {MapObs(<<Item("pixels", ImageA)>>), MapObs(<<Item("pixels", ImageB)>>)}
    ELSE IF l = "both"
    THEN {MapObs(<<Item("position", Arr1(<<1, 2>>)), Item("pixels", ImageA),
                   Item("velocity", Arr1(<<3>>))>>),
          MapObs(<<Item("position", Arr1(<<4, 0>>)), Item("pixels", ImageB),
                   Item("velocity", Arr1(<<5>>))>>)}
    ELSE {MapObs(<<Item("position", Arr1(<<1, 2>>)), Item("velocity", Arr1(<<3>>))>>),
          MapObs(<<Item("position", Arr1(<<4, 0>>)), Item("velocity", Arr1(<<5>>))>>)}

Rewards == {None, <<2>>}

\* step() after a LAST step restarts the episode: FIRST, with reward None.
StepTypes == {"FIRST", "MID", "LAST"}

----------------------------------------------------------------------------
(* Wrappers                                                                *)

Adapter == "DMControlAdapter"
Flatten == "ObservationConcatenationWrapper"
Gray == "GrayscaleWrapper"
FrameStack == "FrameStackWrapper"
MaxStep == "MaxStepWrapper"

Kinds == {Adapter, Flatten, Gray, FrameStack, MaxStep}

\* The constructor argument of each kind: frame_stacks, max_steps, or none.
Args(kind) ==
    IF kind = FrameStack THEN 1..MaxN
    ELSE IF kind = MaxStep THEN 0..MaxLimit
    ELSE {0}

NewWrapper(kind, arg) ==
    [kind |-> kind,
     max_steps |-> IF kind = MaxStep THEN arg ELSE 0,
     current_step |-> 0,
     n |-> IF kind = FrameStack THEN arg ELSE 0,
     history |-> <<>>]

KindsOf(ch) == [i \in 1..Len(ch) |-> ch[i].kind]

\* Wrapper._ensure_no_double_wrap of a new wrapper of this kind whose env is the
\* top of ch: TRUE when it raises.  The walk ends at the base environment,
\* which is no Wrapper.
RECURSIVE WalkFrom(_, _, _)
WalkFrom(ch, i, kind) ==
    IF i = 0 THEN FALSE
    ELSE IF ch[i].kind = kind THEN TRUE
    ELSE WalkFrom(ch, i - 1, kind)

ImmediateOnly(ch, kind) == Len(ch) > 0 /\ ch[Len(ch)].kind = kind

_ensure_no_double_wrap(ch, kind) == WalkFrom(ch, Len(ch), kind)

\* The constructors: "" when the wrapper is built, else the error raised.  A
\* dm_control environment has no metadata, so Wrapper.__init__ fails on it
\* unless the constructor set one first, as DMControlAdapter's does.
Construct(ch, kind, arg) ==
    IF kind = Adapter
    THEN IF _ensure_no_double_wrap(ch, kind) THEN "RuntimeError"
         ELSE IF Len(ch) # 0 THEN "AssertionError"
         ELSE ""
    ELSE IF Len(ch) = 0 THEN "AttributeError"
    ELSE IF _ensure_no_double_wrap(ch, kind) THEN "RuntimeError"
    ELSE IF kind = MaxStep /\ arg <= 0 THEN "ValueError"
    ELSE ""

----------------------------------------------------------------------------
(* step() and reset() of each wrapper: the wrapper after the call and what *)
(* the call returned, given what its env returned.                         *)

Stage(w, res) == [w |-> w, res |-> res]

KeepsNoneReward(ts) ==
    Returned(ts.observation, ts.reward, ts.step_type = "LAST", EmptyInfo)

DMControlAdapter_step(ts) ==
    Returned(ts.observation,
             IF ts.reward = None THEN <<0>> ELSE ts.reward,
             ts.step_type = "LAST",
             EmptyInfo)

DMControlAdapter_reset(ts) == Returned(ts.observation, None, FALSE, EmptyInfo)

\* A wrapper that maps the observation by f and hands the rest through.
WithObservation(inner, r) ==
    IF r.ok THEN Returned(r.obs, inner.reward, inner.done, inner.info) ELSE r

ObservationConcatenationWrapper_step(inner) ==
    IF ~inner.ok THEN inner ELSE WithObservation(inner, flatten_obs(inner.obs))

ObservationConcatenationWrapper_reset(inner) ==
    IF ~inner.ok THEN inner ELSE WithObservation(inner, flatten_obs(inner.obs))

GrayscaleWrapper_step(inner) ==
    IF ~inner.ok THEN inner ELSE WithObservation(inner, _grayscale(inner.obs))

GrayscaleWrapper_reset(inner) ==
    IF ~inner.ok THEN inner ELSE WithObservation(inner, _grayscale(inner.obs))

LimitPassed(current_step, max_steps) == current_step > max_steps

\* if self.current_step >= self.max_steps
LimitReached(current_step, max_steps) == current_step >= max_steps

MaxStepWrapper_step(w, inner) ==
    LET w2 == [w EXCEPT !.current_step = @ + 1]
    IN  Stage(w2,
              IF ~inner.ok THEN inner
              ELSE Returned(inner.obs, inner.reward,
                            IF LimitReached(w2.current_step, w2.max_steps)
                            THEN TRUE ELSE inner.done,
                            inner.info))

MaxStepWrapper_reset(w, inner) == Stage([w EXCEPT !.current_step = 0], inner)

DequeAppendLeft(h, n, x) ==
    IF n = 0 THEN <<>>
    ELSE IF Len(h) >= n THEN <<x>> \o SubSeq(h, 1, Len(h) - 1)
    ELSE <<x>> \o h

\* deque(maxlen=n).append(x).
DequeAppend(h, n, x) ==
    IF n = 0 THEN <<>>
    ELSE IF Len(h) >= n THEN Append(Tail(h), x)
    ELSE Append(h, x)

OldestFlat(h) == h[1].flat

\* The flat component: flat_obs[-1], or None when flat_obs[0] is None.
StackedFlat(h) == IF h[1].flat.isNone THEN NoneArr ELSE h[Len(h)].flat

_stacked_observation(h) ==
    IF Len(h) = 0 THEN Raised("IndexError")
    ELSE IF \E i \in 1..Len(h) : h[i].tag # "pair" THEN Raised(UnpackError(h[1]))
    ELSE IF h[1].visual.isNone
    THEN Returned(PairObs(NoneArr, StackedFlat(h)), None, FALSE, EmptyInfo)
    ELSE IF h[1].visual.shape # <<1, PixH, PixW>> THEN Raised("AssertionError")
    ELSE IF \E i \in 1..Len(h) : h[i].visual.isNone THEN Raised("ValueError")
    ELSE Returned(PairObs(Concatenate([i \in 1..Len(h) |-> h[i].visual]), StackedFlat(h)),
                  None, FALSE, EmptyInfo)

FrameStackWrapper_step(w, inner) ==
    IF ~inner.ok THEN Stage(w, inner)
    ELSE LET w2 == [w EXCEPT !.history = DequeAppend(@, w.n, inner.obs)]
         IN  Stage(w2, WithObservation(inner, _stacked_observation(w2.history)))

AppendOnce(h, n, x, times) == DequeAppend(h, n, x)

\* for i in range(n): self._history.append(obs)
RECURSIVE AppendTimes(_, _, _, _)
AppendTimes(h, n, x, times) ==
    IF times = 0 THEN h ELSE AppendTimes(DequeAppend(h, n, x), n, x, times - 1)

FrameStackWrapper_reset(w, inner) ==
    IF ~inner.ok THEN Stage(w, inner)
    ELSE LET w2 == [w EXCEPT !.history = AppendTimes(@, w.n, inner.obs, w.n)]
         IN  Stage(w2, WithObservation(inner, _stacked_observation(w2.history)))

\* Env.step dispatches to _step, Env.reset to _reset.
StageStep(w, ts, inner) ==
    IF w.kind = Adapter THEN Stage(w, DMControlAdapter_step(ts))
    ELSE IF w.kind = Flatten THEN Stage(w, ObservationConcatenationWrapper_step(inner))
    ELSE IF w.kind = Gray THEN Stage(w, GrayscaleWrapper_step(inner))
    ELSE IF w.kind = FrameStack THEN FrameStackWrapper_step(w, inner)
    ELSE MaxStepWrapper_step(w, inner)

StageReset(w, ts, inner) ==
    IF w.kind = Adapter THEN Stage(w, DMControlAdapter_reset(ts))
    ELSE IF w.kind = Flatten THEN Stage(w, ObservationConcatenationWrapper_reset(inner))
    ELSE IF w.kind = Gray THEN Stage(w, GrayscaleWrapper_reset(inner))
    ELSE IF w.kind = FrameStack THEN FrameStackWrapper_reset(w, inner)
    ELSE MaxStepWrapper_reset(w, inner)

\* A call on the outermost wrapper: every wrapper calls its env once, so the
\* native environment answers ts and each stage maps what the one below returned.
RECURSIVE CallChain(_, _, _)
CallChain(ch, ts, op) ==
    IF Len(ch) = 0 THEN [chain |-> <<>>, out |-> <<>>]
    ELSE LET below == CallChain(SubSeq(ch, 1, Len(ch) - 1), ts, op)
             inner == IF Len(ch) = 1 THEN Raised("") ELSE below.out[Len(ch) - 1]
             s == IF op = "step" THEN StageStep(ch[Len(ch)], ts, inner)
                  ELSE StageReset(ch[Len(ch)], ts, inner)
         IN  [chain |-> Append(below.chain, s.w), out |-> Append(below.out, s.res)]

----------------------------------------------------------------------------
(* observation_spec() of each wrapper                                      *)

NoneSpec == [isNone |-> TRUE, shape |-> <<>>]

ArraySpec(shape) == [isNone |-> FALSE, shape |-> shape]

\* An OrderedDict of named ArraySpecs (the dm_control format).
MapSpec(items) ==
    [ok |-> TRUE, err |-> "", tag |-> "mapping", items |-> items,
     visual_dim |-> NoneSpec, flat_dim |-> None]

\* {'type': 'continuous', 'dim': (visual_dim, flat_dim)}.
PairSpec(visual_dim, flat_dim) ==
    [ok |-> TRUE, err |-> "", tag |-> "pair", items |-> <<>>,
     visual_dim |-> visual_dim, flat_dim |-> flat_dim]

SpecRaised(err) ==
    [ok |-> FALSE, err |-> err, tag |-> "none", items |-> <<>>,
     visual_dim |-> NoneSpec, flat_dim |-> None]

SpecItem(name, shape) == [name |-> name, shape |-> shape]

DMControlAdapter_observation_spec == MapSpec(<<SpecItem("pixels", <<PixC, PixH, PixW>>)>>)

\* The loop over the inner spec's items; flat_dim += x[0] subscripts an
\* ArraySpec, which raises TypeError.
RECURSIVE ConcatSpecLoop(_, _, _)
ConcatSpecLoop(items, k, visual_dim) ==
    IF k > Len(items) THEN PairSpec(visual_dim, None)
    ELSE IF Len(items[k].shape) > 1
         THEN IF ~visual_dim.isNone THEN SpecRaised("AssertionError")
              ELSE IF items[k].shape # <<PixC, PixH, PixW>> THEN SpecRaised("AssertionError")
              ELSE ConcatSpecLoop(items, k + 1, ArraySpec(items[k].shape))
         ELSE IF Len(items[k].shape) = 1 THEN SpecRaised("TypeError")
         ELSE SpecRaised("Exception")

ObservationConcatenationWrapper_observation_spec(inner) ==
    IF ~inner.ok THEN inner
    ELSE IF inner.tag # "mapping" THEN SpecRaised("AttributeError")
    ELSE ConcatSpecLoop(inner.items, 1, NoneSpec)

GrayscaleWrapper_observation_spec(inner) ==
    IF ~inner.ok THEN inner
    ELSE IF inner.tag # "pair" THEN SpecRaised("KeyError")
    ELSE IF inner.visual_dim.isNone THEN PairSpec(NoneSpec, inner.flat_dim)
    ELSE IF inner.visual_dim.shape # <<PixC, PixH, PixW>> THEN SpecRaised("AssertionError")
    ELSE PairSpec(ArraySpec(<<1, inner.visual_dim.shape[2], inner.visual_dim.shape[3]>>),
                  inner.flat_dim)

FrameStackWrapper_observation_spec(w, inner) ==
    IF ~inner.ok THEN inner
    ELSE IF inner.tag # "pair" THEN SpecRaised("KeyError")
    ELSE IF inner.visual_dim.isNone THEN PairSpec(NoneSpec, inner.flat_dim)
    ELSE IF Len(inner.visual_dim.shape) # 3 THEN SpecRaised("ValueError")
    ELSE IF <<inner.visual_dim.shape[2], inner.visual_dim.shape[3]>> # <<PixH, PixW>>
    THEN SpecRaised("AssertionError")
    ELSE PairSpec(ArraySpec(<<inner.visual_dim.shape[1] * w.n,
                              inner.visual_dim.shape[2], inner.visual_dim.shape[3]>>),
                  inner.flat_dim)

\* observation_spec() of stage i of the chain; MaxStepWrapper inherits
\* Wrapper.observation_spec, which asks its env.
RECURSIVE observation_spec(_, _)
observation_spec(ch, i) ==
    IF ch[i].kind = Adapter THEN DMControlAdapter_observation_spec
    ELSE IF i = 1 THEN SpecRaised("AttributeError")
    ELSE LET inner == observation_spec(ch, i - 1)
         IN  IF ch[i].kind = Flatten
             THEN ObservationConcatenationWrapper_observation_spec(inner)
             ELSE IF ch[i].kind = Gray THEN GrayscaleWrapper_observation_spec(inner)
             ELSE IF ch[i].kind = FrameStack
             THEN FrameStackWrapper_observation_spec(ch[i], inner)
             ELSE inner

----------------------------------------------------------------------------
(* The wrapper chain as a state machine                                    *)

\* A call and its outcome: before holds the kinds of the chain a constructor
\* was given, prior the frame history a reset() found.
Call(op, kind, arg, err, before, prior, ts, out) ==
    [op |-> op, kind |-> kind, arg |-> arg, err |-> err, before |-> before,
     prior |-> prior, ts |-> ts, out |-> out]

Position(ch, kind) ==
    IF \E i \in 1..Len(ch) : ch[i].kind = kind
    THEN CHOOSE i \in 1..Len(ch) : ch[i].kind = kind
    ELSE 0

\* A function that has not been applied yet.
Pending == Raised("pending")

Outcome(status, file) == [status |-> status, file |-> file]

PureIdle ==
    /\ gIn = NoObs /\ gOut = Pending
    /\ fIn = NoObs /\ fOut = Pending
    /\ listing = <<>> /\ restored = Outcome("idle", <<>>)

ChainIdle ==
    /\ layout = "pixels" /\ chain = <<>>
    /\ last = Call("init", "", 0, "", <<>>, <<>>, NoTimeStep, <<>>)
    /\ nSteps = 0 /\ obsLog = <<>>

Init ==
    /\ layout \in Layouts
    /\ chain = <<>>
    /\ last = Call("init", "", 0, "", <<>>, <<>>, NoTimeStep, <<>>)
    /\ nSteps = 0
    /\ obsLog = <<>>
    /\ PureIdle

\* kind(env, arg) with env the outermost wrapper (or the native environment):
\* the chain is built before it is run.
Wrap(kind, arg) ==
    /\ last.op \in {"init", "wrap"}
    /\ LET err == Construct(chain, kind, arg)
       IN  /\ chain' = IF err = "" THEN Append(chain, NewWrapper(kind, arg)) ELSE chain
           /\ last' = Call("wrap", kind, arg, err, KindsOf(chain), <<>>, NoTimeStep, <<>>)
    /\ UNCHANGED <<layout, nSteps, obsLog, gIn, gOut, fIn, fOut, listing, restored>>

HistoryOf(ch) ==
    IF Position(ch, FrameStack) = 0 THEN <<>> ELSE ch[Position(ch, FrameStack)].history

\* What the FrameStackWrapper's env returned in this call, if it returned.
InnerOfFrameStack(ch, out) ==
    LET i == Position(ch, FrameStack)
    IN  IF i > 1 /\ out[i - 1].ok THEN <<out[i - 1].obs>> ELSE <<>>

\* reset() on the outermost wrapper.
Reset(obs) ==
    /\ Len(chain) > 0
    /\ LET ts == TimeStep("FIRST", None, obs)
           r == CallChain(chain, ts, "reset")
       IN  /\ chain' = r.chain
           /\ last' = Call("reset", "", 0, "", <<>>, HistoryOf(chain), ts, r.out)
           /\ obsLog' = InnerOfFrameStack(chain, r.out)
    /\ nSteps' = 0
    /\ UNCHANGED <<layout, gIn, gOut, fIn, fOut, listing, restored>>

\* step(action) on the outermost wrapper.
Step(obs, reward, step_type) ==
    /\ Len(chain) > 0
    /\ nSteps < StepCap
    /\ LET ts == TimeStep(step_type, reward, obs)
           r == CallChain(chain, ts, "step")
       IN  /\ chain' = r.chain
           /\ last' = Call("step", "", 0, "", <<>>, <<>>, ts, r.out)
           /\ obsLog' = IF obsLog = <<>> THEN <<>>
                        ELSE obsLog \o InnerOfFrameStack(chain, r.out)
    /\ nSteps' = nSteps + 1
    /\ UNCHANGED <<layout, gIn, gOut, fIn, fOut, listing, restored>>

Next ==
    \/ \E kind \in Kinds : \E arg \in Args(kind) : Wrap(kind, arg)
    \/ \E obs \in Frames(layout) : Reset(obs)
    \/ \E obs \in Frames(layout) : \E reward \in Rewards : \E step_type \in StepTypes :
          Step(obs, reward, step_type)

Spec == Init /\ [][Next]_vars

----------------------------------------------------------------------------
(* GrayscaleWrapper._grayscale on its own                                  *)

\* A (C, H, W) array that is zero but at pixel (h, w), whose channels are c.
Visual(h, w, c) ==
    MkArr(<<Len(c), PixH, PixW>>,
          [i \in {<<k - 1, h, w>> : k \in {j \in 1..Len(c) : c[j] # 0}} |-> c[i[1] + 1]])

PixelValues == {0, 1, 85, 200, 255}

GrayInputs ==
    LET visuals == {Visual(5, 7, <<a, b, c>>) : a, b, c \in PixelValues}
                   \cup {Concat2(Visual(0, 83, <<9>>), Visual(83, 0, <<250, 3>>)),
                         Visual(5, 7, <<4>>), NoneArr}
    IN  {PairObs(v, f) : v \in visuals, f \in {NoneArr, Arr1(<<1, 0, 2>>)}}

InitGray ==
    /\ gIn \in GrayInputs
    /\ gOut = Pending
    /\ fIn = NoObs /\ fOut = Pending
    /\ listing = <<>> /\ restored = Outcome("idle", <<>>)
    /\ ChainIdle

GrayApply ==
    /\ gOut = Pending
    /\ gOut' = _grayscale(gIn)
    /\ UNCHANGED <<layout, chain, last, nSteps, obsLog, gIn, fIn, fOut, listing, restored>>

SpecGray == InitGray /\ [][GrayApply]_vars

----------------------------------------------------------------------------
(* flatten_obs on its own                                                  *)

ImageC == Concat2(Image(0, 83, <<0, 7, 0>>), Image(83, 5, <<1, 2, 3>>))

\* The arrays a native observation may hold under each name; "camera" is a
\* second image, or a depth map of rank 2.
FlattenPool ==
    {Item("position", Arr1(<<1, 2, 3, 4, 5>>)), Item("position", Arr1(<<0, 0, 9, 0, 0>>)),
     Item("velocity", Arr1(<<6, 7, 8>>)), Item("velocity", Arr1(<<0, 1, 0>>)),
     Item("pixels", ImageA), Item("pixels", ImageB), Item("pixels", ImageC),
     Item("camera", ImageB), Item("camera", MkArr(<<PixH, PixW>>, NoData))}

MaxItems == 3

FlattenInputs ==
    {MapObs(items) : items \in
        {s \in UNION {[1..n -> FlattenPool] : n \in 0..MaxItems} :
            \A i, j \in 1..Len(s) : i # j => s[i].name # s[j].name}}

InitFlatten ==
    /\ fIn \in FlattenInputs
    /\ fOut = Pending
    /\ gIn = NoObs /\ gOut = Pending
    /\ listing = <<>> /\ restored = Outcome("idle", <<>>)
    /\ ChainIdle

FlattenApply ==
    /\ fOut = Pending
    /\ fOut' = flatten_obs(fIn)
    /\ UNCHANGED <<layout, chain, last, nSteps, obsLog, gIn, gOut, fIn, listing, restored>>

SpecFlatten == InitFlatten /\ [][FlattenApply]_vars

----------------------------------------------------------------------------
(* restore_model                                                           *)

Digits == <<"0", "1", "2", "3", "4", "5", "6", "7", "8", "9">>

IsDigit(ch) == \E d \in 1..10 : Digits[d] = ch

DigitValue(ch) == (CHOOSE d \in 1..10 : Digits[d] = ch) - 1

\* s.split('.'): the segments between the dots.
RECURSIVE Split(_, _, _)
Split(s, k, seg) ==
    IF k > Len(s) THEN <<seg>>
    ELSE IF s[k] = "." THEN <<seg>> \o Split(s, k + 1, <<>>)
    ELSE Split(s, k + 1, Append(seg, s[k]))

\* int(seg) of a string of decimal digits; anything else raises ValueError.
IsInt(seg) == Len(seg) > 0 /\ \A k \in 1..Len(seg) : IsDigit(seg[k])

RECURSIVE IntOf(_)
IntOf(seg) ==
    IF Len(seg) = 0 THEN 0
    ELSE 10 * IntOf(SubSeq(seg, 1, Len(seg) - 1)) + DigitValue(seg[Len(seg)])

FirstDigit(seg) == DigitValue(seg[1])

FirstDigitOnly(ckpt) == FirstDigit(Split(ckpt, 1, <<>>)[2])

\* int(path.basename(ckpt).split('.')[1])
iter_num(ckpt) == IntOf(Split(ckpt, 1, <<>>)[2])

\* The loop over glob's result from file k on, then the load.  With no file
\* chosen the message's '{}'.format() raises IndexError before the ValueError
\* is built.
RECURSIVE RestoreLoop(_, _, _, _)
RestoreLoop(files, k, max_iter, max_ckpt) ==
    IF k > Len(files)
    THEN IF max_ckpt = None THEN Outcome("IndexError", None) ELSE Outcome("loaded", max_ckpt)
    ELSE LET segs == Split(files[k], 1, <<>>)
         IN  IF Len(segs) < 2 THEN Outcome("IndexError", None)
             ELSE IF ~IsInt(segs[2]) THEN Outcome("ValueError", None)
             ELSE IF iter_num(files[k]) > max_iter
                  THEN RestoreLoop(files, k + 1, iter_num(files[k]), files[k])
                  ELSE RestoreLoop(files, k + 1, max_iter, max_ckpt)

restore_model(files) == RestoreLoop(files, 1, -1, None)

Ext == <<".", "c", "k", "p", "t">>

\* The files a checkpoint folder may hold, each with the iteration it was
\* saved at; final.ckpt does not follow <name>.<iteration_number>.ckpt.
CkptPool ==
    {[base |-> <<"m", ".", "0">> \o Ext, iteration |-> 0],
     [base |-> <<"m", ".", "9">> \o Ext, iteration |-> 9],
     [base |-> <<"m", ".", "1", "0">> \o Ext, iteration |-> 10],
     [base |-> <<"a", "b", ".", "0", "0", "7">> \o Ext, iteration |-> 7],
     [base |-> <<"a", "b", ".", "7">> \o Ext, iteration |-> 7],
     [base |-> <<"a", "b", ".", "1", "2", "0">> \o Ext, iteration |-> 120],
     [base |-> <<"f", "i", "n", "a", "l">> \o Ext, iteration |-> -1]}

\* glob lists the files in no particular order.
Listings ==
    {s \in UNION {[1..n -> {f.base : f \in CkptPool}] : n \in 0..MaxFiles} :
        \A i, j \in 1..Len(s) : i # j => s[i] # s[j]}

InitRestore ==
    /\ listing \in Listings
    /\ restored = Outcome("idle", <<>>)
    /\ gIn = NoObs /\ gOut = Pending
    /\ fIn = NoObs /\ fOut = Pending
    /\ ChainIdle

Restore ==
    /\ restored.status = "idle"
    /\ restored' = restore_model(listing)
    /\ UNCHANGED <<layout, chain, last, nSteps, obsLog, gIn, gOut, fIn, fOut, listing>>

SpecRestore == InitRestore /\ [][Restore]_vars

----------------------------------------------------------------------------
(* Properties of the wrapper chain (under Spec)                            *)

Has(kind) == Position(chain, kind) > 0

Called == last.op \in {"reset", "step"}

\* C1: constructing a wrapper of a kind the chain already holds, at any depth,
\* raises the double-wrap RuntimeError and builds nothing; so no chain ever holds
\* two wrappers of one kind.
NoDoubleWrap ==
    /\ \A i, j \in 1..Len(chain) : i # j => chain[i].kind # chain[j].kind
    /\ (last.op = "wrap" /\ \E i \in 1..Len(last.before) : last.before[i] = last.kind)
          => (last.err = "RuntimeError" /\ KindsOf(chain) = last.before)
    /\ (last.op = "wrap" /\ last.err = "")
          => (KindsOf(chain) = Append(last.before, last.kind))

\* A double wrap refused for a wrapper two or more levels below the outermost one.
DoubleWrapAtDepth ==
    /\ last.op = "wrap" /\ last.err = "RuntimeError"
    /\ Len(chain) >= 3
    /\ \E i \in 1..(Len(chain) - 2) : chain[i].kind = last.kind

\* C2 as stated: done is false on calls 1..L-1 and true on call L, whatever the
\* inner environment reports.
DoneExactlyAtLimit ==
    (last.op = "step" /\ Has(MaxStep) /\ last.out[Position(chain, MaxStep)].ok)
        => LET i == Position(chain, MaxStep)
           IN  /\ nSteps < chain[i].max_steps => ~last.out[i].done
               /\ nSteps = chain[i].max_steps => last.out[i].done

\* C2 as amended: from call L on done is true whatever the inner environment
\* reports; on calls 1..L-1 it is what the inner environment reports.
DoneForcedAtLimit ==
    (last.op = "step" /\ Has(MaxStep) /\ last.out[Position(chain, MaxStep)].ok)
        => LET i == Position(chain, MaxStep)
           IN  /\ nSteps >= chain[i].max_steps => last.out[i].done
               /\ nSteps < chain[i].max_steps => (last.out[i].done = last.out[i - 1].done)

\* The L-th call, L = 2, forces done although the inner environment says false.
DoneForcedOverInner ==
    /\ last.op = "step" /\ Has(MaxStep)
    /\ LET i == Position(chain, MaxStep)
       IN  /\ chain[i].max_steps = 2 /\ nSteps = 2
           /\ last.out[i].ok /\ last.out[i].done /\ ~last.out[i - 1].done

\* C3: after a reset() that the inner environment answered, the history holds
\* N entries, each the observation of that reset, and the stacked visual that
\* reset() returns has N times the channels of one frame.
ResetFillsHistory ==
    (last.op = "reset" /\ Has(FrameStack) /\ last.out[Position(chain, FrameStack) - 1].ok)
        => LET i == Position(chain, FrameStack)
               o == last.out[i - 1].obs
           IN  /\ Len(chain[i].history) = chain[i].n
               /\ \A k \in 1..Len(chain[i].history) : chain[i].history[k] = o
               /\ (last.out[i].ok /\ ~o.visual.isNone)
                     => /\ ~last.out[i].obs.visual.isNone
                        /\ last.out[i].obs.visual.shape[1] = chain[i].n * o.visual.shape[1]

\* A reset() over a history that earlier calls left holding another frame.
ResetAfterSteps ==
    /\ last.op = "reset" /\ Has(FrameStack)
    /\ LET i == Position(chain, FrameStack)
       IN  /\ chain[i].n = 2 /\ last.out[i].ok
           /\ ~last.out[i].obs.visual.isNone
           /\ Len(last.prior) = 2
           /\ last.prior[1] # last.prior[2]
           /\ last.prior[2] # chain[i].history[2]

Repeat(x, n) == [k \in 1..n |-> x]

LastN(s, n) == SubSeq(s, Len(s) - n + 1, Len(s))

\* The frames the history must hold after the logged reset and steps.
ExpectedFrames(n) == LastN(Repeat(obsLog[1], n) \o Tail(obsLog), n)

\* out is the frames' visuals stacked along the channel axis, oldest first.
StackedOldestFirst(out, frames) ==
    LET c == frames[1].visual.shape[1]
    IN  /\ out.shape = <<c * Len(frames), PixH, PixW>>
        /\ \A m \in 1..Len(frames) :
              /\ \A idx \in DOMAIN frames[m].visual.data :
                    At(out, Shift(idx, (m - 1) * c)) = frames[m].visual.data[idx]
              /\ \A idx \in DOMAIN out.data :
                    (idx[1] \in ((m - 1) * c)..(m * c - 1))
                        => Shift(idx, -((m - 1) * c)) \in DOMAIN frames[m].visual.data

\* C4: once reset, each step() pushes the inner observation at the newest end and
\* evicts the oldest: after observations o0, o1..ok the history is the last N of
\* [o0 N times, o1, .., ok], and the stacked visual holds them oldest first.
HistoryIsFifo ==
    (Has(FrameStack) /\ obsLog # <<>>)
        => LET i == Position(chain, FrameStack)
           IN  /\ chain[i].history = ExpectedFrames(chain[i].n)
               /\ (Called /\ last.out[i].ok /\ ~last.out[i].obs.visual.isNone)
                     => StackedOldestFirst(last.out[i].obs.visual,
                                           ExpectedFrames(chain[i].n))

\* Two steps after a reset, N = 2: the reset's frame is gone and the two frames
\* left differ.
OldestEvicted ==
    /\ last.op = "step" /\ Has(FrameStack) /\ Len(obsLog) = 3
    /\ LET i == Position(chain, FrameStack)
       IN  /\ chain[i].n = 2 /\ last.out[i].ok
           /\ ~last.out[i].obs.visual.isNone
           /\ obsLog[1] # obsLog[2] /\ obsLog[2] # obsLog[3]

\* C5: the flat component reset() and step() return is the flat component of
\* the inner observation of that call, absent exactly when that one is absent.
FlatIsMostRecent ==
    (Called /\ Has(FrameStack) /\ last.out[Position(chain, FrameStack)].ok)
        => LET i == Position(chain, FrameStack)
           IN  last.out[i].obs.flat = last.out[i - 1].obs.flat

\* A step() whose history holds two frames of different flat data.
FlatOfNewestFrame ==
    /\ last.op = "step" /\ Has(FrameStack)
    /\ LET i == Position(chain, FrameStack)
       IN  /\ chain[i].n = 2 /\ last.out[i].ok
           /\ ~last.out[i].obs.flat.isNone
           /\ Len(chain[i].history) = 2
           /\ chain[i].history[1].flat # chain[i].history[2].flat

\* An observation has the structure a spec declares.
Matches(obs, sp) ==
    IF sp.tag = "mapping"
    THEN /\ obs.tag = "mapping"
         /\ Len(obs.items) = Len(sp.items)
         /\ \A k \in 1..Len(sp.items) :
               /\ obs.items[k].name = sp.items[k].name
               /\ obs.items[k].arr.shape = sp.items[k].shape
    ELSE /\ obs.tag = "pair"
         /\ obs.visual.isNone = sp.visual_dim.isNone
         /\ ~obs.visual.isNone => obs.visual.shape = sp.visual_dim.shape
         /\ obs.flat.isNone = (sp.flat_dim = None)
         /\ ~obs.flat.isNone => obs.flat.shape = sp.flat_dim

\* C8: in a chain of the adapter, Flatten, Grayscale and Frame-stack, whatever a
\* stage returns has the structure its observation_spec() declares.
ObservationMatchesSpec ==
    (Called /\ ~Has(MaxStep))
        => \A i \in 1..Len(chain) :
              (last.out[i].ok /\ observation_spec(chain, i).ok)
                  => Matches(last.out[i].obs, observation_spec(chain, i))

----------------------------------------------------------------------------
(* Properties of _grayscale (under SpecGray)                               *)

RECURSIVE ChannelSum(_, _, _)
ChannelSum(v, p, c) == IF c = 0 THEN 0 ELSE ChannelSum(v, p, c - 1) + At(v, <<c - 1>> \o p)

\* C6: a (3,H,W) visual becomes (1,H,W) with every value the integer mean
\* floor((c0+c1+c2)/3) of its three channels; flat is handed through, and an
\* observation without visual comes back unchanged.
GrayIsIntegerMean ==
    /\ (gOut # Pending /\ gIn.visual.isNone) => (gOut.ok /\ gOut.obs = gIn)
    /\ (gOut # Pending /\ ~gIn.visual.isNone /\ gIn.visual.shape = <<PixC, PixH, PixW>>)
          => /\ gOut.ok
             /\ gOut.obs.flat = gIn.flat
             /\ gOut.obs.visual.shape = <<1, PixH, PixW>>
             /\ \A p \in {Tail(i) : i \in DOMAIN gIn.visual.data} \cup {<<0, 0>>} :
                   At(gOut.obs.visual, <<0>> \o p) = ChannelSum(gIn.visual, p, PixC) \div PixC
             /\ \A i \in DOMAIN gOut.obs.visual.data :
                   i[1] = 0 /\ \E j \in DOMAIN gIn.visual.data : Tail(j) = Tail(i)

----------------------------------------------------------------------------
(* Properties of flatten_obs (under SpecFlatten)                           *)

IsFlatItem(it) == Len(it.arr.shape) = 1

IsVisualItem(it) == Len(it.arr.shape) > 1

FlatItems(items) == {k \in 1..Len(items) : IsFlatItem(items[k])}

VisualItems(items) == {k \in 1..Len(items) : IsVisualItem(items[k])}

RECURSIVE Offset(_, _)
Offset(items, k) ==
    IF k = 1 THEN 0
    ELSE Offset(items, k - 1)
         + (IF IsFlatItem(items[k - 1]) THEN items[k - 1].arr.shape[1] ELSE 0)

\* The flat output is the 1-D arrays in mapping order, absent when there are none.
FlatIsConcatenation(items, flat) ==
    /\ flat.isNone <=> FlatItems(items) = {}
    /\ ~flat.isNone
          => /\ flat.shape = <<Offset(items, Len(items) + 1)>>
             /\ \A k \in FlatItems(items) : \A j \in 0..(items[k].arr.shape[1] - 1) :
                   At(flat, <<Offset(items, k) + j>>) = At(items[k].arr, <<j>>)

WellFormed(items) ==
    /\ Cardinality(VisualItems(items)) <= 1
    /\ \A k \in VisualItems(items) : items[k].arr.shape = <<PixH, PixW, PixC>>

\* C7: of a mapping with at most one image, flat is the concatenation of the
\* 1-D arrays in mapping order (absent when there are none) and visual is the
\* (84,84,3) image as (3,84,84) with out[c][h][w] = in[h][w][c] (absent when
\* there is none).
FlattenContract ==
    (fOut # Pending /\ WellFormed(fIn.items))
        => /\ fOut.ok
           /\ FlatIsConcatenation(fIn.items, fOut.obs.flat)
           /\ fOut.obs.visual.isNone <=> VisualItems(fIn.items) = {}
           /\ \A k \in VisualItems(fIn.items) :
                 /\ fOut.obs.visual.shape = <<PixC, PixH, PixW>>
                 /\ \A i \in DOMAIN fIn.items[k].arr.data :
                       At(fOut.obs.visual, <<i[3], i[1], i[2]>>) = fIn.items[k].arr.data[i]
                 /\ Cardinality(DOMAIN fOut.obs.visual.data)
                       = Cardinality(DOMAIN fIn.items[k].arr.data)

\* What flatten_obs does instead: the two image axes come out swapped,
\* out[c][w][h] = in[h][w][c].
FlattenSwapsImageAxes ==
    (fOut # Pending /\ WellFormed(fIn.items))
        => /\ fOut.ok
           /\ FlatIsConcatenation(fIn.items, fOut.obs.flat)
           /\ fOut.obs.visual.isNone <=> VisualItems(fIn.items) = {}
           /\ \A k \in VisualItems(fIn.items) :
                 /\ fOut.obs.visual.shape = <<PixC, PixH, PixW>>
                 /\ \A i \in DOMAIN fIn.items[k].arr.data :
                       At(fOut.obs.visual, <<i[3], i[2], i[1]>>) = fIn.items[k].arr.data[i]
                 /\ Cardinality(DOMAIN fOut.obs.visual.data)
                       = Cardinality(DOMAIN fIn.items[k].arr.data)

----------------------------------------------------------------------------
(* Properties of restore_model (under SpecRestore)                         *)

IterationOf(base) == (CHOOSE f \in CkptPool : f.base = base).iteration

Conforms(files) == \A k \in 1..Len(files) : IterationOf(files[k]) >= 0

\* C10: of a non-empty folder of <name>.<iteration_number>.ckpt files the one
\* loaded has the greatest iteration number; an empty listing raises and opens
\* no file.
LatestCheckpointWins ==
    restored.status # "idle"
        => /\ listing = <<>> => (restored.status # "loaded" /\ restored.file = None)
           /\ (listing # <<>> /\ Conforms(listing))
                 => /\ restored.status = "loaded"
                    /\ \E k \in 1..Len(listing) : listing[k] = restored.file
                    /\ \A k \in 1..Len(listing) :
                          IterationOf(restored.file) >= IterationOf(listing[k])

\* Iteration 10 is chosen over iteration 9, listed before or after it.
TenBeatsNine ==
    /\ restored.status = "loaded"
    /\ IterationOf(restored.file) = 10
    /\ Len(listing) = 3
    /\ \E k \in 1..3 : IterationOf(listing[k]) = 9

====
